---- MODULE Spec2Model ----
(***************************************************************************)
(* Model of the AI agent flow: runFlow (flow-runner.ts), getLLMModel       *)
(* (llm.ts), handleReviewAgent (code-review.ts), gatingStep                *)
(* (test-gating.ts), handleTestGeneration / finalizeTestProposals /        *)
(* commitTests (test-proposals.ts), handleTestFix (test-fix.ts),           *)
(* runLocalTests (test-runner.ts), createComment / updateComment           *)
(* (github-comments.ts) and buildPRContext (pr-context.ts).                *)
(*                                                                         *)
(* Strings the code inspects (file names, file contents) are sequences of  *)
(* one-character strings, so endsWith, includes and replace are computed.  *)
(* Comment bodies are sequences of segments; += is Append.                 *)
(* Environment: a content lookup (repos.getContent) answers with a file,   *)
(* a directory listing, 404, or another error status; generateObject       *)
(* answers with a parsed object or throws; the comment API and the content *)
(* writes return.                                                          *)
(***************************************************************************)
EXTENDS Integers, Sequences, FiniteSets, TLC

\* ------------------------------------------------------------------ bounds
MaxProposals == 1      \* proposals in one model answer
MaxFiles == 1          \* changed files listed for the PR

\* ------------------------------------------------------- program constants
maxIterations == 3
MaxContentLength == 32000

\* ------------------------------------------------------------- strings
S_tests_unit == <<"_","_","t","e","s","t","s","_","_","/","u","n","i","t">>
S_tests_unit_slash == S_tests_unit \o <<"/">>
S_test_ts == <<".","t","e","s","t",".","t","s">>
S_test_tsx == <<".","t","e","s","t",".","t","s","x">>
S_tsx == <<".","t","s","x">>
S_app_slash == <<"a","p","p","/">>
S_import_React == <<"i","m","p","o","r","t"," ","R","e","a","c","t">>
S_from_react == <<"f","r","o","m"," ","\"","r","e","a","c","t","\"">>
S_package_lock == <<"p","a","c","k","a","g","e","-","l","o","c","k",".","j","s","o","n">>
S_yarn_lock == <<"y","a","r","n",".","l","o","c","k">>
S_pnpm_lock == <<"p","n","p","m","-","l","o","c","k",".","y","a","m","l">>
EmptyStr == << >>

\* String.prototype.endsWith
EndsWith(s, suf) ==
  /\ Len(suf) <= Len(s)
  /\ SubSeq(s, Len(s) - Len(suf) + 1, Len(s)) = suf

\* String.prototype.includes
Includes(s, pat) ==
  \E i \in 1..(Len(s) - Len(pat) + 1) : SubSeq(s, i, i + Len(pat) - 1) = pat

\* s.replace(/<suf>$/, rep): replaces the suffix when the string ends in it
ReplaceSuffix(s, suf, rep) ==
  IF EndsWith(s, suf) THEN SubSeq(s, 1, Len(s) - Len(suf)) \o rep ELSE s

\* String.prototype.startsWith
StartsWith(s, pre) == Len(pre) <= Len(s) /\ SubSeq(s, 1, Len(pre)) = pre

\* ----------------------------------------------------------- file contents
\* A test file's content is a sequence of code points below 2048; a stored
\* file is the sequence of its bytes.

\* the UTF-8 bytes of a string: Buffer.from(s, "utf8"), writeFileSync(.., "utf-8")
RECURSIVE utf8(_)
utf8(str) ==
  IF str = << >> THEN << >>
  ELSE LET c == Head(str) IN
       (IF c < 128 THEN <<c>> ELSE <<192 + (c \div 64), 128 + (c % 64)>>)
         \o utf8(Tail(str))

\* the padding character "=" among the base64 digits 0..63
Pad == 64

\* buf.toString("base64"): 3 bytes give 4 digits, the rest is padded
RECURSIVE base64(_)
base64(bytes) ==
  IF bytes = << >> THEN << >>
  ELSE IF Len(bytes) = 1
  THEN <<bytes[1] \div 4, (bytes[1] % 4) * 16, Pad, Pad>>
  ELSE IF Len(bytes) = 2
  THEN <<bytes[1] \div 4, (bytes[1] % 4) * 16 + (bytes[2] \div 16),
         (bytes[2] % 16) * 4, Pad>>
  ELSE <<bytes[1] \div 4, (bytes[1] % 4) * 16 + (bytes[2] \div 16),
         (bytes[2] % 16) * 4 + (bytes[3] \div 64), bytes[3] % 64>>
         \o base64(SubSeq(bytes, 4, Len(bytes)))

\* the bytes the hosting API stores for a base64 content
RECURSIVE base64Decode(_)
base64Decode(digits) ==
  IF digits = << >> THEN << >>
  ELSE LET d == SubSeq(digits, 1, 4)
           b1 == d[1] * 4 + (d[2] \div 16)
           b2 == (d[2] % 16) * 16 + (d[3] \div 4)
           b3 == (d[3] % 4) * 64 + d[4]
       IN (IF d[3] = Pad THEN <<b1>>
           ELSE IF d[4] = Pad THEN <<b1, b2>>
           ELSE <<b1, b2, b3>>)
            \o base64Decode(SubSeq(digits, 5, Len(digits)))

\* a path that does not exist, and a file with its bytes
Absent == [exists |-> FALSE, bytes |-> << >>]
File(bytes) == [exists |-> TRUE, bytes |-> bytes]

\* ------------------------------------------------------------ PR context
\* content?: string -- defined is FALSE for undefined; len is content.length,
\* text the part of the content the code searches
NoContent == [defined |-> FALSE, text |-> EmptyStr, len |-> 0]
Content(text, len) == [defined |-> TRUE, text |-> text, len |-> len]

\* JavaScript truthiness of a string | undefined
Truthy(c) == c.defined /\ c.len > 0

EXCLUDE_PATTERNS == {S_package_lock, S_yarn_lock, S_pnpm_lock}

shouldExcludeFile(filename) ==
  \E pattern \in EXCLUDE_PATTERNS : EndsWith(filename, pattern)

changedFile_keepsLarge(f) ==
  IF f.status # "removed" /\ ~shouldExcludeFile(f.filename)
  THEN IF Truthy(f.remote)
       THEN [filename |-> f.filename, status |-> f.status,
             content |-> f.remote, excluded |-> FALSE]
       ELSE [filename |-> f.filename, status |-> f.status,
             content |-> NoContent, excluded |-> TRUE]
  ELSE [filename |-> f.filename, status |-> f.status,
        content |-> NoContent, excluded |-> TRUE]

\* body of the for loop of buildPRContext for one listed file; f.remote is
\* what getFileContent returns for it
changedFile(f) ==
  IF f.status # "removed" /\ ~shouldExcludeFile(f.filename)
  THEN IF Truthy(f.remote) /\ f.remote.len <= MaxContentLength
       THEN [filename |-> f.filename, status |-> f.status,
             content |-> f.remote, excluded |-> FALSE]
       ELSE [filename |-> f.filename, status |-> f.status,
             content |-> NoContent, excluded |-> TRUE]
  ELSE [filename |-> f.filename, status |-> f.status,
        content |-> NoContent, excluded |-> TRUE]

buildPRContext(files) ==
  [changedFiles |-> [i \in 1..Len(files) |-> changedFile(files[i])]]

\* ------------------------------------------------------ test proposals
isReact(context) ==
  \E i \in 1..Len(context.changedFiles) :
    LET file == context.changedFiles[i] IN
      /\ Truthy(file.content)
      /\ \/ EndsWith(file.filename, S_tsx)
         \/ Includes(file.content.text, S_import_React)
         \/ Includes(file.content.text, S_from_react)
         \/ Includes(file.filename, S_app_slash)

\* the extension step of finalizeTestProposals
enforceExtension(name, react) ==
  IF react /\ ~EndsWith(name, S_test_tsx)
  THEN ReplaceSuffix(name, S_test_ts, S_test_tsx)
  ELSE IF ~react /\ ~EndsWith(name, S_test_ts)
       THEN ReplaceSuffix(name, S_test_tsx, S_test_ts)
       ELSE name

\* the directory step of finalizeTestProposals
ensureUnitDir(name) ==
  IF ~Includes(name, S_tests_unit) THEN S_tests_unit_slash \o name ELSE name

newFilename(name, react) == ensureUnitDir(enforceExtension(name, react))

finalizeTestProposals(raw, context) ==
  [i \in 1..Len(raw) |->
     [raw[i] EXCEPT
        !.filename = newFilename(raw[i].filename, isReact(context))]]

\* ------------------------------------------------------------- inputs
\* Sequences over S of length at most n
SeqsUpTo(S, n) == UNION {[1..m -> S] : m \in 0..n}

N_app_p_tsx == <<"a","p","p","/","p",".","t","s","x">>
N_lib_a_ts == <<"l","i","b","/","a",".","t","s">>
N_yarn_lock == <<"y","a","r","n",".","l","o","c","k">>
N_A_test_ts == <<"A",".","t","e","s","t",".","t","s">>
N_unit_A_test_tsx == <<"_","_","t","e","s","t","s","_","_","/","u","n","i","t","/","A",".","t","e","s","t",".","t","s","x">>
N_unit_B_test_tsx == <<"_","_","t","e","s","t","s","_","_","/","u","n","i","t","/","B",".","t","e","s","t",".","t","s","x">>

\* files that pulls.listFiles may report, with what getFileContent returns
PRFilePool ==
  { [filename |-> N_app_p_tsx, status |-> "modified", remote |-> Content(<<"x">>, 1)],
    [filename |-> N_lib_a_ts, status |-> "modified", remote |-> Content(<<"x">>, 1)],
    [filename |-> N_yarn_lock, status |-> "modified", remote |-> Content(<<"x">>, 1)] }

\* listings a run of the flow may see; buildPRContext itself is checked over
\* SeqsUpTo(ContextFilePool, MaxFiles)
PRFileLists == {<< >>} \cup {<<f>> : f \in {g \in PRFilePool : g.filename # N_lib_a_ts}}

Proposal(f, c, a, o) ==
  [filename |-> f, testContent |-> c, actions |-> [action |-> a, oldFilename |-> o]]

\* proposals the model may answer with (result.object.testProposals entries)
ProposalPool ==
  { Proposal(N_A_test_ts, <<105, 116>>, "create", EmptyStr),
    Proposal(N_unit_B_test_tsx, <<233>>, "rename", N_unit_A_test_tsx) }

ProposalLists == SeqsUpTo(ProposalPool, MaxProposals)

\* process.env: TRUE when the variable is set and non-empty; the key of
\* exactly one provider is set
EnvSet ==
  { e \in [GITHUB_TOKEN : BOOLEAN, GITHUB_EVENT_PATH : BOOLEAN,
           GITHUB_REPOSITORY : BOOLEAN, LLM_PROVIDER : {"", "anthropic"},
           OPENAI_API_KEY : BOOLEAN, ANTHROPIC_API_KEY : BOOLEAN] :
      e.OPENAI_API_KEY # e.ANTHROPIC_API_KEY }

\* every path a commit can touch
Paths ==
  {newFilename(p.filename, r) : p \in ProposalPool, r \in BOOLEAN}
    \cup ({p.actions.oldFilename : p \in ProposalPool} \ {EmptyStr})

\* test files on the PR branch when the run starts: path -> content
InitialBranches ==
  { [p \in Paths |-> Absent],
    [p \in Paths |-> IF p = N_unit_A_test_tsx THEN File(<<116>>) ELSE Absent] }

\* ------------------------------------------------------------- state
VARIABLES
  env,              \* process.env
  pc,               \* position in runFlow / handleTestGeneration
  exitCode,         \* process exit code, -1 while running
  exitSite,         \* which statement ended the process
  event,            \* the event payload: "unread", "pull_request" or "other"
  ctx,              \* baseContext
  listing,          \* filesRes.data, with what getFileContent returns per file
  testContext,      \* testContext
  comments,         \* issue comments of the PR: id -> body
  reviewCommentId, testCommentId,
  reviewBody, testBody,       \* locals of runFlow
  reviewAnalysis,   \* result of handleReviewAgent
  gating,           \* result of gatingStep
  genBody,          \* testBody local to handleTestGeneration
  genCaller,        \* who called handleTestGeneration: "flow" or "fix"
  genContext,       \* context argument of the last handleTestGeneration call
  proposals,        \* proposals being committed by commitTests
  k,                \* index of the next proposal in commitTests
  branch,           \* files on the PR branch: path -> content
  local,            \* files in the working tree: path -> content
  testResult,       \* last result of runLocalTests
  iteration,        \* fix attempt counter
  testRuns,         \* history: number of runLocalTests calls
  fixCalls,         \* history: number of handleTestFix calls
  genCalls,         \* history: number of handleTestGeneration calls
  results,          \* history: jestFailed of every test run, in order
  llmError,         \* history: generateObject threw in review / gating / last generation
  createdPaths,     \* history: paths committed through the create path
  createdLive,      \* history: those of createdPaths not deleted since
  lastCommit,       \* history: what commitTests did for the last proposal
  written,          \* history: path -> what the flow last committed to it
  renamedAway,      \* history: written paths a rename deleted since
  gatingAnswer,     \* history: what the model answered to the gating prompt
  steps             \* history: the steps of runFlow taken so far, in order

vars == <<env, event, pc, exitCode, exitSite, ctx, testContext, comments, reviewCommentId,
          testCommentId, reviewBody, testBody, reviewAnalysis, gating,
          genBody, genCaller, proposals, k, branch, local, testResult,
          iteration, testRuns, fixCalls, genCalls, results, llmError,
          createdPaths, createdLive, lastCommit, genContext, written,
          renamedAway, gatingAnswer, steps, listing>>

ctxV == <<ctx, listing, testContext>>
cmtV == <<comments, reviewCommentId, testCommentId>>
bodyV == <<reviewBody, testBody>>
revV == <<reviewAnalysis, gating>>
genV == <<genBody, genCaller, genContext, proposals, k>>
repoV == <<branch, local>>
loopV == <<testResult, iteration>>
countV == <<testRuns, fixCalls, genCalls, results>>
commitV == <<createdPaths, createdLive, lastCommit, written, renamedAway>>
histV == <<countV, llmError, commitV>>
envV == <<env, event, exitSite>>
logV == <<gatingAnswer, steps>>

\* ------------------------------------------------------ comment bodies
Seg(t) == [t |-> t, n |-> 0, out |-> 0, txt |-> "", files |-> << >>]
SegN(t, n) == [t |-> t, n |-> n, out |-> 0, txt |-> "", files |-> << >>]
SegTxt(t, txt) == [t |-> t, n |-> 0, out |-> 0, txt |-> txt, files |-> << >>]
SegFiles(t, files) == [t |-> t, n |-> 0, out |-> 0, txt |-> "", files |-> files]
SegFix(t, n, out) == [t |-> t, n |-> n, out |-> out, txt |-> "", files |-> << >>]

NoAnalysis == [summary |-> "", fileAnalyses |-> 0, overallSuggestions |-> 0]
NoGating == [shouldGenerate |-> FALSE, reason |-> "", testBody |-> << >>]
NoCommit == [n |-> 0, path |-> EmptyStr, oldLookup |-> "", lookup |-> "",
             write |-> "none", deleted |-> FALSE]
NoLLMError == [review |-> FALSE, gating |-> FALSE, generation |-> FALSE]

updateComment_creates(cs, commentId, body) == Append(cs, body)

\* octokit.issues.updateComment: replaces the body of comment commentId
updateComment(cs, commentId, body) == [cs EXCEPT ![commentId] = body]

\* ------------------------------------------------------------ getLLMModel
getLLMModelThrows_openaiOnly(e) == ~e.OPENAI_API_KEY

\* TRUE when getLLMModel throws: the selected provider's key is missing
getLLMModelThrows(e) ==
  LET provider == IF e.LLM_PROVIDER = "" THEN "openai" ELSE e.LLM_PROVIDER IN
  IF provider = "anthropic" THEN ~e.ANTHROPIC_API_KEY ELSE ~e.OPENAI_API_KEY

\* the state before runFlow is called, but for env, pc, testContext,
\* proposals, branch and local
InitRest ==
  /\ exitCode = -1
  /\ exitSite = ""
  /\ event = "unread"
  /\ ctx = buildPRContext(<< >>)
  /\ listing = << >>
  /\ comments = << >>
  /\ reviewCommentId = 0
  /\ testCommentId = 0
  /\ reviewBody = << >>
  /\ testBody = << >>
  /\ reviewAnalysis = NoAnalysis
  /\ gating = NoGating
  /\ genBody = << >>
  /\ genCaller = ""
  /\ genContext = [changedFiles |-> << >>, existingTestFiles |-> {}]
  /\ k = 1
  /\ testResult = [jestFailed |-> FALSE, output |-> 0]
  /\ iteration = 0
  /\ testRuns = 0
  /\ fixCalls = 0
  /\ genCalls = 0
  /\ results = << >>
  /\ llmError = NoLLMError
  /\ createdPaths = {}
  /\ createdLive = {}
  /\ lastCommit = NoCommit
  /\ written = [p \in Paths |-> Absent]
  /\ renamedAway = {}
  /\ gatingAnswer = ""
  /\ steps = << >>

Init ==
  /\ env \in EnvSet
  /\ pc = "checkToken"
  /\ testContext = [changedFiles |-> << >>, existingTestFiles |-> {}]
  /\ proposals = << >>
  /\ branch \in InitialBranches
  /\ local = branch
  /\ InitRest

\* ------------------------------------------------------------- runFlow
\* process.exit(code)
Exit(code, site) == pc' = "exited" /\ exitCode' = code /\ exitSite' = site

CheckToken ==
  /\ pc = "checkToken"
  /\ IF ~env.GITHUB_TOKEN THEN Exit(1, "token")
     ELSE pc' = "checkEventPath" /\ UNCHANGED <<exitCode, exitSite>>
  /\ UNCHANGED <<env, event, ctxV, cmtV, bodyV, revV, genV, repoV, loopV, histV, logV>>

CheckEventPath ==
  /\ pc = "checkEventPath"
  /\ pc' = IF ~env.GITHUB_EVENT_PATH THEN "returned" ELSE "readEvent"
  /\ UNCHANGED <<envV, exitCode, ctxV, cmtV, bodyV, revV, genV, repoV, loopV, histV, logV>>

\* eventData.pull_request is present or not
ReadEvent ==
  /\ pc = "readEvent"
  /\ \E pullRequest \in BOOLEAN :
       /\ event' = IF pullRequest THEN "pull_request" ELSE "other"
       /\ pc' = IF ~pullRequest THEN "returned" ELSE "checkRepository"
  /\ UNCHANGED <<env, exitSite, exitCode, ctxV, cmtV, bodyV, revV, genV, repoV, loopV, histV, logV>>

CheckRepository ==
  /\ pc = "checkRepository"
  /\ pc' = IF ~env.GITHUB_REPOSITORY THEN "returned" ELSE "buildPRContext"
  /\ UNCHANGED <<envV, exitCode, ctxV, cmtV, bodyV, revV, genV, repoV, loopV, histV, logV>>

\* buildPRContext called when pulls.listFiles answers with one of lists; a
\* content lookup that fails with a status other than 404 throws
BuildPRContextOf(lists) ==
  /\ pc = "buildPRContext"
  /\ \E files \in lists, lookupError \in BOOLEAN :
       IF lookupError /\ \E i \in 1..Len(files) :
            files[i].status # "removed" /\ ~shouldExcludeFile(files[i].filename)
       THEN pc' = "rejected" /\ UNCHANGED <<ctx, listing, steps>>
       ELSE /\ pc' = "createReviewComment"
            /\ listing' = files
            /\ ctx' = buildPRContext(files)
            /\ steps' = Append(steps, "context")
  /\ UNCHANGED <<envV, exitCode, testContext, cmtV, bodyV, revV, genV, repoV, loopV,
                 histV, gatingAnswer>>

\* Step 1
BuildPRContext == BuildPRContextOf(PRFileLists)

\* Step 2
CreateReviewComment ==
  /\ pc = "createReviewComment"
  /\ reviewBody' = <<Seg("reviewInit")>>
  /\ comments' = Append(comments, reviewBody')
  /\ reviewCommentId' = Len(comments')
  /\ pc' = "handleReviewAgent"
  /\ UNCHANGED <<envV, exitCode, ctxV, testCommentId, testBody, revV, genV, repoV, loopV, histV, logV>>

\* what generateReview returns when generateObject throws
reviewFallback ==
  [summary |-> "Review parse error", fileAnalyses |-> 0, overallSuggestions |-> 0]

\* analyses the model may answer with: number of file analyses / suggestions
ReviewAnswers ==
  { [summary |-> "s", fileAnalyses |-> 1, overallSuggestions |-> 1] }

\* generateReview after getLLMModel returned: parsed answer or fallback
generateReview(parseError, answer) ==
  IF parseError THEN reviewFallback ELSE answer

\* the body handleReviewAgent builds from the analysis
reviewText(body, analysis) ==
  LET b1 == Append(body, SegTxt("summary", analysis.summary))
      b2 == IF analysis.fileAnalyses > 0
            THEN Append(b1, SegN("fileAnalyses", analysis.fileAnalyses)) ELSE b1
  IN IF analysis.overallSuggestions > 0
     THEN Append(b2, SegN("suggestions", analysis.overallSuggestions)) ELSE b2

\* Step 3: handleReviewAgent; note that runFlow's reviewBody is not updated
HandleReviewAgent ==
  /\ pc = "handleReviewAgent"
  /\ IF getLLMModelThrows(env)
     THEN pc' = "rejected" /\ UNCHANGED <<comments, reviewAnalysis, llmError, steps>>
     ELSE \E parseError \in BOOLEAN, answer \in ReviewAnswers :
            LET analysis == generateReview(parseError, answer) IN
            /\ comments' = updateComment(comments, reviewCommentId,
                                         reviewText(reviewBody, analysis))
            /\ reviewAnalysis' = analysis
            /\ llmError' = [llmError EXCEPT !.review = parseError]
            /\ steps' = Append(steps, "review")
            /\ pc' = "createTestComment"
  /\ UNCHANGED <<envV, exitCode, ctxV, reviewCommentId, testCommentId, bodyV,
                 gating, genV, repoV, loopV, countV, commitV, gatingAnswer>>

\* Step 4
CreateTestComment ==
  /\ pc = "createTestComment"
  /\ testBody' = <<Seg("testInit")>>
  /\ comments' = Append(comments, testBody')
  /\ testCommentId' = Len(comments')
  /\ pc' = "buildTestContext"
  /\ UNCHANGED <<envV, exitCode, ctxV, reviewCommentId, reviewBody, revV, genV, repoV, loopV, histV, logV>>

\* getAllTestFiles: the files under __tests__ on the branch whose content is
\* not empty
getAllTestFiles(b) ==
  { [filename |-> p, content |-> b[p].bytes] :
      p \in {q \in Paths : /\ b[q].exists /\ b[q].bytes # << >>
                            /\ StartsWith(q, <<"_","_","t","e","s","t","s","_","_","/">>)} }

\* Step 5
BuildTestContext ==
  /\ pc = "buildTestContext"
  /\ \E lookupError \in BOOLEAN :
       IF lookupError
       THEN pc' = "rejected" /\ UNCHANGED testContext
       ELSE /\ testContext' = [changedFiles |-> ctx.changedFiles,
                               existingTestFiles |-> getAllTestFiles(branch)]
            /\ pc' = "gatingStep"
  /\ UNCHANGED <<envV, exitCode, ctx, listing, cmtV, bodyV, revV, genV, repoV, loopV,
                 histV, logV>>

gatingStepLogic_noFallback(parseError, answer) == answer

gatingStepLogic_fallbackGenerates(parseError, answer) ==
  IF parseError THEN [shouldGenerate |-> TRUE, reason |-> "Gating error"] ELSE answer

\* what gatingStepLogic returns when generateObject throws
gatingFallback == [shouldGenerate |-> FALSE, reason |-> "Gating error"]

\* decisions the model may answer with
GatingAnswers ==
  { [shouldGenerate |-> TRUE, reason |-> "r"],
    [shouldGenerate |-> FALSE, reason |-> "r"] }

gatingStepLogic(parseError, answer) ==
  IF parseError THEN gatingFallback ELSE answer

\* Step 6: gatingStep
GatingStep ==
  /\ pc = "gatingStep"
  /\ IF getLLMModelThrows(env)
     THEN /\ comments' = updateComment(comments, testCommentId,
                                       Append(testBody, Seg("gatingCheck")))
          /\ pc' = "rejected" /\ UNCHANGED <<gating, llmError, logV>>
     ELSE \E parseError \in BOOLEAN, answer \in GatingAnswers :
            LET g == gatingStepLogic(parseError, answer)
                b1 == Append(testBody, Seg("gatingCheck"))
                b2 == IF ~g.shouldGenerate
                      THEN Append(b1, SegTxt("skipReason", g.reason)) ELSE b1
            IN /\ comments' = updateComment(comments, testCommentId, b2)
               /\ gating' = [shouldGenerate |-> g.shouldGenerate,
                             reason |-> g.reason, testBody |-> b2]
               /\ llmError' = [llmError EXCEPT !.gating = parseError]
               /\ gatingAnswer' = IF parseError THEN "unparsable"
                                  ELSE IF answer.shouldGenerate THEN "true" ELSE "false"
               /\ steps' = Append(steps, "gating")
               /\ pc' = "gatingBranch"
  /\ UNCHANGED <<envV, exitCode, ctxV, reviewCommentId, testCommentId, bodyV,
                 reviewAnalysis, genV, repoV, loopV, countV, commitV>>

afterGating_endsWorkflow(shouldGenerate) ==
  IF ~shouldGenerate THEN "report" ELSE "handleTestGeneration"

\* where runFlow goes after the gating decision: to Step 7 directly, or
\* through handleTestGeneration
afterGating(shouldGenerate) ==
  IF ~shouldGenerate THEN "runLocalTests" ELSE "handleTestGeneration"

\* the if (!gating.shouldGenerate) ... else ... of runFlow
GatingBranch ==
  /\ pc = "gatingBranch"
  /\ testBody' = IF ~gating.shouldGenerate
                 THEN Append(gating.testBody, Seg("skipRunning"))
                 ELSE gating.testBody
  /\ pc' = afterGating(gating.shouldGenerate)
  /\ IF ~gating.shouldGenerate
     THEN /\ comments' = updateComment(comments, testCommentId, testBody')
          /\ UNCHANGED <<genBody, genCaller, genContext, genCalls, steps>>
     ELSE /\ genBody' = testBody'
          /\ genCaller' = "flow"
          /\ genContext' = testContext
          /\ genCalls' = genCalls + 1
          /\ steps' = Append(steps, "generate")
          /\ UNCHANGED comments
  /\ UNCHANGED <<envV, exitCode, ctxV, reviewCommentId, testCommentId, reviewBody,
                 revV, proposals, k, repoV, loopV, testRuns, fixCalls, results,
                 llmError, commitV, gatingAnswer>>

\* ------------------------------------------------- handleTestGeneration
\* generateTestsForChanges after getLLMModel returned
generateTestsForChanges(parseError, raw, context) ==
  IF parseError THEN << >> ELSE finalizeTestProposals(raw, context)

propagate_caughtInLoop(caller) ==
  IF caller = "fix" THEN "runLocalTests" ELSE "rejected"

\* where control goes when a call inside handleTestGeneration throws: none of
\* handleTestGeneration, handleTestFix and runFlow has a try around the
\* call, so the promise of runFlow is rejected
propagate(caller) == "rejected"

\* handleTestGeneration up to the call of commitTests, and to its end when
\* there are no proposals
HandleTestGeneration ==
  /\ pc = "handleTestGeneration"
  /\ LET b1 == Append(genBody, Seg("generating")) IN
     IF getLLMModelThrows(env)
     THEN /\ comments' = updateComment(comments, testCommentId, b1)
          /\ genBody' = b1
          /\ pc' = propagate(genCaller)
          /\ UNCHANGED <<proposals, k, llmError>>
     ELSE \E parseError \in BOOLEAN, raw \in ProposalLists :
            LET ps == generateTestsForChanges(parseError, raw, genContext) IN
            /\ proposals' = ps
            /\ k' = 1
            /\ llmError' = [llmError EXCEPT !.generation = parseError]
            /\ IF Len(ps) > 0
               THEN /\ comments' = updateComment(comments, testCommentId, b1)
                    /\ genBody' = b1
                    /\ pc' = "commitTests"
               ELSE /\ comments' = updateComment(comments, testCommentId,
                                                 Append(b1, Seg("noProposals")))
                    /\ genBody' = << >>
                    /\ pc' = "runLocalTests"
  /\ UNCHANGED <<envV, exitCode, ctxV, reviewCommentId, testCommentId, bodyV, revV,
                 genCaller, genContext, repoV, loopV, countV, commitV, logV>>

\* a's proper prefix followed by "/" : b lies under directory a
IsUnder(b, a) ==
  Len(b) > Len(a) + 1 /\ SubSeq(b, 1, Len(a) + 1) = a \o <<"/">>

\* octokit.repos.getContent for path on the branch, when it answers:
\* a file (data has a sha), a directory listing (an array), or 404
getContent(b, path) ==
  IF path \in Paths /\ b[path].exists THEN "file"
  ELSE IF \E q \in Paths : b[q].exists /\ IsUnder(q, path) THEN "dir"
  ELSE "notfound"

\* the rename part of the loop body of commitTests: TRUE when it looks up
\* the old file
renameApplies(p) ==
  /\ p.actions.action = "rename"
  /\ p.actions.oldFilename # EmptyStr
  /\ p.actions.oldFilename # p.filename

afterRename_keepsOld(b, p) == b

\* the branch after the rename part
afterRename(b, p) ==
  IF renameApplies(p) /\ getContent(b, p.actions.oldFilename) = "file"
  THEN [b EXCEPT ![p.actions.oldFilename] = Absent]
  ELSE b

writeFor_no404(found) == IF found = "file" THEN "update" ELSE "none"

writeFor_noSha(found) == IF found \in {"file", "notfound"} THEN "create" ELSE "none"

\* which write the second part of the loop body issues for a lookup result
writeFor(found) ==
  CASE found = "file" -> "update"
    [] found = "notfound" -> "create"
    [] OTHER -> "none"

encoded_latin1(testContent) == base64(testContent)

\* const encoded = Buffer.from(p.testContent, "utf8").toString("base64")
encoded(testContent) == base64(utf8(testContent))

\* the file createOrUpdateFileContents leaves on the branch for content
stored(content) == File(base64Decode(content))

\* one iteration of the for loop of commitTests; oldError / newError: the
\* lookup fails with a status other than 404
CommitTests ==
  /\ pc = "commitTests"
  /\ k <= Len(proposals)
  /\ \E oldError \in BOOLEAN, newError \in BOOLEAN :
       LET p == proposals[k]
           oldFound == IF ~renameApplies(p) THEN ""
                       ELSE IF oldError THEN "error"
                       ELSE getContent(branch, p.actions.oldFilename)
           b1 == afterRename(branch, p)
           found == IF newError THEN "error" ELSE getContent(b1, p.filename)
           write == writeFor(found)
           deleted == IF b1 # branch THEN {p.actions.oldFilename} ELSE {}
           away == renamedAway \cup {q \in deleted : written[q].exists}
       IN
       IF oldFound = "error"
       THEN /\ pc' = propagate(genCaller)
            /\ lastCommit' = [n |-> lastCommit.n + 1, path |-> p.filename,
                              oldLookup |-> oldFound, lookup |-> "",
                              write |-> "none", deleted |-> FALSE]
            /\ UNCHANGED <<branch, local, k, createdPaths, createdLive, written,
                           renamedAway>>
       ELSE IF found = "error"
       THEN /\ branch' = b1
            /\ pc' = propagate(genCaller)
            /\ createdLive' = createdLive \ deleted
            /\ renamedAway' = away
            /\ lastCommit' = [n |-> lastCommit.n + 1, path |-> p.filename,
                              oldLookup |-> oldFound, lookup |-> found,
                              write |-> "none", deleted |-> (deleted # {})]
            /\ UNCHANGED <<local, k, createdPaths, written>>
       ELSE /\ branch' = IF write = "none" THEN b1
                         ELSE [b1 EXCEPT ![p.filename] = stored(encoded(p.testContent))]
            /\ local' = [local EXCEPT ![p.filename] = File(utf8(p.testContent))]
            /\ createdPaths' = IF write = "create"
                               THEN createdPaths \cup {p.filename}
                               ELSE createdPaths
            /\ createdLive' = IF write = "create"
                              THEN (createdLive \ deleted) \cup {p.filename}
                              ELSE createdLive \ deleted
            /\ lastCommit' = [n |-> lastCommit.n + 1, path |-> p.filename,
                              oldLookup |-> oldFound, lookup |-> found,
                              write |-> write, deleted |-> (deleted # {})]
            /\ written' = IF write = "none" THEN written
                          ELSE [written EXCEPT ![p.filename] = File(utf8(p.testContent))]
            /\ renamedAway' = IF write = "none" THEN away ELSE away \ {p.filename}
            /\ k' = k + 1
            /\ pc' = IF k + 1 > Len(proposals)
                     THEN "handleTestGenerationEnd" ELSE "commitTests"
  /\ UNCHANGED <<envV, exitCode, ctxV, cmtV, bodyV, revV, genBody, genCaller,
                 genContext, proposals, loopV, countV, llmError, logV>>

\* handleTestGeneration after commitTests returned; its locals end with it
HandleTestGenerationEnd ==
  /\ pc = "handleTestGenerationEnd"
  /\ comments' = updateComment(comments, testCommentId,
        Append(genBody,
          SegFiles("proposed", [i \in 1..Len(proposals) |-> proposals[i].filename])))
  /\ genBody' = << >>
  /\ proposals' = << >>
  /\ k' = 1
  /\ pc' = "runLocalTests"
  /\ UNCHANGED <<envV, exitCode, ctxV, reviewCommentId, testCommentId, bodyV, revV,
                 genCaller, genContext, repoV, loopV, histV, logV>>

\* ------------------------------------------------------------ test loop
\* Step 7 and the re-run in the loop: runLocalTests
RunLocalTests ==
  /\ pc = "runLocalTests"
  /\ \E jestFailed \in BOOLEAN :
       /\ testResult' = [jestFailed |-> jestFailed, output |-> testRuns + 1]
       /\ results' = Append(results, jestFailed)
  /\ testRuns' = testRuns + 1
  /\ steps' = Append(steps, "test")
  /\ pc' = "loop"
  /\ UNCHANGED <<envV, exitCode, ctxV, cmtV, bodyV, revV, genV, repoV, iteration,
                 fixCalls, genCalls, llmError, commitV, gatingAnswer>>

loopCondition_offByOne(failed, it) == failed /\ it <= maxIterations

loopCondition_ignoresResult(failed, it) == it < maxIterations

\* the while condition of runFlow
loopCondition(failed, it) == failed /\ it < maxIterations

fixNotice_constant(body, it) == Append(body, SegN("fixNotice", 1))

\* testBody += "**Test Fix #${iteration}** Tests are failing. Attempting a fix..."
fixNotice(body, it) == Append(body, SegN("fixNotice", it))

\* the loop test and the loop body up to the call of handleTestFix
Loop ==
  /\ pc = "loop"
  /\ IF loopCondition(testResult.jestFailed, iteration)
     THEN /\ iteration' = iteration + 1
          /\ testBody' = fixNotice(testBody, iteration')
          /\ comments' = updateComment(comments, testCommentId, testBody')
          /\ pc' = "handleTestFix"
     ELSE /\ pc' = "report"
          /\ UNCHANGED <<iteration, testBody, comments>>
  /\ UNCHANGED <<envV, exitCode, ctxV, reviewCommentId, testCommentId, reviewBody,
                 revV, genV, repoV, testResult, histV, logV>>

fixContext_refetched(context, b) ==
  [context EXCEPT !.existingTestFiles = getAllTestFiles(b)]

\* the context handleTestFix hands to handleTestGeneration: its own argument,
\* whatever is on the branch b by now
fixContext(context, b) == context

fixPrompt_previousAttempt(it, output) == SegFix("fixPrompt", it - 1, output)

\* const fixPrompt = `We have failing tests (attempt #${iteration}). Here is
\* the error output: ${testErrorOutput} ...`
fixPrompt(it, output) == SegFix("fixPrompt", it, output)

\* handleTestFix: calls handleTestGeneration with testBody + fixPrompt
HandleTestFix ==
  /\ pc = "handleTestFix"
  /\ fixCalls' = fixCalls + 1
  /\ genBody' = Append(testBody, fixPrompt(iteration, testResult.output))
  /\ genCaller' = "fix"
  /\ genContext' = fixContext(testContext, branch)
  /\ genCalls' = genCalls + 1
  /\ steps' = Append(steps, "fix")
  /\ pc' = "handleTestGeneration"
  /\ UNCHANGED <<envV, exitCode, ctxV, cmtV, bodyV, revV, proposals, k, repoV,
                 loopV, testRuns, results, llmError, commitV, gatingAnswer>>

exitCodeFor_alwaysOne(jestFailed) == 1

\* the code the final if / else of runFlow passes to process.exit
exitCodeFor(jestFailed) == IF ~jestFailed THEN 0 ELSE 1

reportMessage_alwaysSuccess(body, jestFailed) == Append(body, Seg("success"))

\* the message the final if / else of runFlow appends to testBody
reportMessage(body, jestFailed) ==
  IF ~jestFailed
  THEN Append(body, Seg("success"))
  ELSE Append(body, SegN("failure", maxIterations))

\* the final if / else of runFlow
Report ==
  /\ pc = "report"
  /\ testBody' = reportMessage(testBody, testResult.jestFailed)
  /\ comments' = updateComment(comments, testCommentId, testBody')
  /\ steps' = Append(steps, "report")
  /\ Exit(exitCodeFor(testResult.jestFailed), "report")
  /\ UNCHANGED <<env, event, ctxV, reviewCommentId, testCommentId, reviewBody, revV,
                 genV, repoV, loopV, histV, gatingAnswer>>

\* ------------------------------------------------------------- ai-flow
\* runFlow().catch(err => process.exit(1))
AiFlowCatch ==
  /\ pc = "rejected"
  /\ Exit(1, "catch")
  /\ UNCHANGED <<env, event, ctxV, cmtV, bodyV, revV, genV, repoV, loopV, histV, logV>>

\* runFlow returned without process.exit: the process ends with code 0
ProcessEnd ==
  /\ pc = "returned"
  /\ Exit(0, "end")
  /\ UNCHANGED <<env, event, ctxV, cmtV, bodyV, revV, genV, repoV, loopV, histV, logV>>

Next ==
  \/ CheckToken \/ CheckEventPath \/ ReadEvent \/ CheckRepository
  \/ BuildPRContext \/ CreateReviewComment \/ HandleReviewAgent
  \/ CreateTestComment \/ BuildTestContext \/ GatingStep \/ GatingBranch
  \/ HandleTestGeneration \/ CommitTests \/ HandleTestGenerationEnd
  \/ RunLocalTests \/ Loop \/ HandleTestFix \/ Report
  \/ AiFlowCatch \/ ProcessEnd

Spec == Init /\ [][Next]_vars

\* the steps of the run are taken one after the other until the process exits
FairSpec == Spec /\ WF_vars(Next)

\* ------------------------------------------- finalizeTestProposals alone
N_A == <<"A">>
FinalizeDirs == {EmptyStr, S_tests_unit_slash, <<"s","r","c","/">>, <<"s","r","c","/","_","_","t","e","s","t","s","_","_","/","u","n","i","t","/">>}
FinalizeExts == {EmptyStr, <<".","t","s">>, <<".","t","s","x">>, S_test_ts, S_test_tsx, <<".","s","p","e","c",".","t","s">>, <<".","t","e","s","t",".","j","s">>}

\* file names the model may propose
FinalizeNames == {d \o N_A \o e : d \in FinalizeDirs, e \in FinalizeExts}

\* files a PR may list, with what getFileContent returns for them
ContextFilePool ==
  PRFilePool \cup
  { [filename |-> N_lib_a_ts, status |-> "modified", remote |-> Content(S_import_React, 12)],
    [filename |-> N_lib_a_ts, status |-> "modified", remote |-> Content(S_from_react, 12)],
    [filename |-> N_app_p_tsx, status |-> "removed", remote |-> NoContent],
    [filename |-> N_app_p_tsx, status |-> "modified", remote |-> Content(EmptyStr, 0)],
    [filename |-> N_app_p_tsx, status |-> "modified", remote |-> NoContent],
    [filename |-> N_app_p_tsx, status |-> "modified", remote |-> Content(<<"x">>, MaxContentLength)],
    [filename |-> N_app_p_tsx, status |-> "modified", remote |-> Content(<<"x">>, MaxContentLength + 1)] }

FinalizeInit ==
  /\ env \in {e \in EnvSet : e.GITHUB_TOKEN /\ e.GITHUB_EVENT_PATH /\ e.GITHUB_REPOSITORY
                              /\ e.OPENAI_API_KEY /\ e.LLM_PROVIDER = ""}
  /\ pc = "finalize"
  /\ \E files \in SeqsUpTo(ContextFilePool, MaxFiles) :
       testContext = [changedFiles |-> buildPRContext(files).changedFiles,
                      existingTestFiles |-> {}]
  /\ \E names \in SeqsUpTo(FinalizeNames, MaxProposals) :
       proposals = [i \in 1..Len(names) |-> Proposal(names[i], <<116>>, "create", EmptyStr)]
  /\ branch = [p \in Paths |-> Absent]
  /\ local = branch
  /\ InitRest

\* return finalizeTestProposals(result.object.testProposals, context)
FinalizeTestProposals ==
  /\ pc = "finalize"
  /\ proposals' = finalizeTestProposals(proposals, testContext)
  /\ pc' = "finalized"
  /\ UNCHANGED <<envV, exitCode, ctxV, cmtV, bodyV, revV, genBody, genCaller,
                 genContext, k, repoV, loopV, histV, logV>>

FinalizeNext == FinalizeTestProposals

FinalizeSpec == FinalizeInit /\ [][FinalizeNext]_vars

\* --------------------------------------------------- commitTests alone
\* finalized proposals commitTests may be called with: every action, with an
\* old file name that is empty, a test file, the proposal's own name or the
\* directory of the tests
CommitPool ==
  { Proposal(f, <<233>>, a, o) :
      f \in {N_unit_A_test_tsx, N_unit_B_test_tsx},
      a \in {"create", "update", "rename"},
      o \in {EmptyStr, N_unit_A_test_tsx, N_unit_B_test_tsx, S_tests_unit} }

\* the PR branch when commitTests is called
CommitBranches ==
  { [p \in Paths |-> IF p \in present THEN File(<<116>>) ELSE Absent] :
      present \in SUBSET {N_unit_A_test_tsx, N_unit_B_test_tsx} }

\* handleTestGeneration calls commitTests with a non-empty list; the working
\* tree is the checkout of the branch
CommitInit ==
  /\ env \in {e \in EnvSet : e.GITHUB_TOKEN /\ e.GITHUB_EVENT_PATH /\ e.GITHUB_REPOSITORY
                              /\ e.OPENAI_API_KEY /\ e.LLM_PROVIDER = ""}
  /\ pc = "commitTests"
  /\ testContext = [changedFiles |-> << >>, existingTestFiles |-> {}]
  /\ proposals \in SeqsUpTo(CommitPool, MaxProposals) \ {<< >>}
  /\ branch \in CommitBranches
  /\ local = branch
  /\ InitRest

CommitNext == CommitTests

CommitSpec == CommitInit /\ [][CommitNext]_vars

\* ------------------------------------------------- buildPRContext alone
N_package_lock == <<"p","a","c","k","a","g","e","-","l","o","c","k",".","j","s","o","n">>
N_sub_pnpm_lock == <<"s","u","b","/","p","n","p","m","-","l","o","c","k",".","y","a","m","l">>

\* what getFileContent may return for a file: undefined (404, or not a
\* file), the empty string, and contents up to and beyond the length limit
RemoteContents ==
  { NoContent, Content(EmptyStr, 0), Content(<<"x">>, 1),
    Content(<<"x">>, MaxContentLength), Content(<<"x">>, MaxContentLength + 1) }

\* files pulls.listFiles may report: file.status is one of GitHub's values
\* or missing ("")
ListedFilePool ==
  { [filename |-> n, status |-> st, remote |-> r] :
      n \in {N_app_p_tsx, N_lib_a_ts, N_yarn_lock, N_package_lock, N_sub_pnpm_lock},
      st \in {"added", "modified", "removed", "renamed", ""},
      r \in RemoteContents }

ContextInit ==
  /\ env \in {e \in EnvSet : e.GITHUB_TOKEN /\ e.GITHUB_EVENT_PATH /\ e.GITHUB_REPOSITORY
                              /\ e.OPENAI_API_KEY /\ e.LLM_PROVIDER = ""}
  /\ pc = "buildPRContext"
  /\ testContext = [changedFiles |-> << >>, existingTestFiles |-> {}]
  /\ proposals = << >>
  /\ branch = [p \in Paths |-> Absent]
  /\ local = branch
  /\ InitRest

\* const baseContext = await buildPRContext(octokit, owner, repo, prNumber)
BuildPRContextAlone == BuildPRContextOf(SeqsUpTo(ListedFilePool, MaxFiles))

ContextNext == BuildPRContextAlone

ContextSpec == ContextInit /\ [][ContextNext]_vars

\* ---------------------------------------------------------- properties
Min(a, b) == IF a <= b THEN a ELSE b

\* number of consecutive failing test runs counted from the initial run
RECURSIVE LeadingFailures(_)
LeadingFailures(rs) ==
  IF rs = << >> \/ ~Head(rs) THEN 0 ELSE 1 + LeadingFailures(Tail(rs))

\* number of segments of body that satisfy Is
CountSegs(body, Is(_)) == Cardinality({i \in 1..Len(body) : Is(body[i])})

\* C1: a run that reached the test phase never has more fix calls than
\* min(f, 3), f the number of consecutive failing test runs from the initial
\* run, and has exactly min(f, 3) of them when the process has exited;
\* handleTestFix is never called more than 3 times
C1_FixCallsMinFailures ==
  /\ fixCalls <= 3
  /\ fixCalls <= Min(LeadingFailures(results), 3)
  /\ (pc = "exited" /\ testRuns > 0) =>
        fixCalls = Min(LeadingFailures(results), 3)

C1_Witness ==
  pc = "exited" /\ testRuns = 4 /\ LeadingFailures(results) = 4 /\ fixCalls = 3

FailFailPass == <<TRUE, TRUE, FALSE>>

\* C2: when the first and second test runs fail and the third passes there
\* are exactly 2 calls of handleTestFix and 3 of runLocalTests, no further
\* one follows, and the process exits with code 0
C2_FailFailPass ==
  /\ []((Len(results) >= 3 /\ SubSeq(results, 1, 3) = FailFailPass) =>
          /\ results = FailFailPass
          /\ fixCalls = 2 /\ testRuns = 3 /\ iteration = 2
          /\ (pc = "exited" => exitCode = 0))
  /\ ((results = FailFailPass) ~> (pc = "exited" /\ exitCode = 0))

C2_Witness ==
  results = FailFailPass /\ pc = "exited" /\ exitCode = 0 /\ fixCalls = 2

AllFail == <<TRUE, TRUE, TRUE, TRUE>>

IsFixNotice(seg) == seg.t = "fixNotice"

\* C3: when the initial test run and the re-run after each of the 3 fix
\* attempts fail, the test comment holds exactly one "Test Fix #i" notice
\* for each i in 1..3 and no other, and the process exits with code 1 after
\* the failure message was posted
C3_AllFail ==
  /\ [](results = AllFail =>
          /\ \A i \in 1..3 :
               LET IsNotice(seg) == seg.t = "fixNotice" /\ seg.n = i IN
                 /\ CountSegs(comments[testCommentId], IsNotice) = 1
                 /\ CountSegs(testBody, IsNotice) = 1
          /\ CountSegs(comments[testCommentId], IsFixNotice) = 3
          /\ fixCalls = 3
          /\ (pc = "exited" =>
                /\ exitCode = 1
                /\ comments[testCommentId] = testBody
                /\ testBody[Len(testBody)] = SegN("failure", maxIterations)))
  /\ ((results = AllFail) ~> (pc = "exited" /\ exitCode = 1))

C3_Witness ==
  /\ results = AllFail /\ pc = "exited" /\ exitCode = 1
  /\ CountSegs(comments[testCommentId], IsFixNotice) = 3

\* the selected provider's API key is not set
SelectedKeyMissing(e) ==
  IF e.LLM_PROVIDER = "anthropic" THEN ~e.ANTHROPIC_API_KEY ELSE ~e.OPENAI_API_KEY

Passed ==
  /\ ~testResult.jestFailed /\ exitCode = 0
  /\ \A i \in 1..(Len(results) - 1) : results[i]
  /\ ~results[Len(results)]
  /\ testBody[Len(testBody)] = Seg("success")

\* the test phase ended with the attempts exhausted and the tests failing
Exhausted ==
  /\ testResult.jestFailed /\ exitCode = 1
  /\ iteration = maxIterations /\ fixCalls = 3 /\ testRuns = 4
  /\ results = AllFail
  /\ testBody[Len(testBody)] = SegN("failure", maxIterations)

\* C5: a run that reached the test phase terminates; it never has more than
\* 4 test runs or 3 fix cycles; and when no external call failed it ends in
\* exactly one of: tests passed, or attempts exhausted with tests failing
C5_TestPhaseTerminates ==
  /\ [](testRuns <= 4 /\ fixCalls <= 3 /\ iteration <= 3)
  /\ []((pc = "exited" /\ testRuns > 0) =>
          /\ exitSite \in {"report", "catch"}
          /\ exitSite = "report" => (Passed /\ ~Exhausted) \/ (Exhausted /\ ~Passed)
          /\ exitSite = "catch" => lastCommit.lookup = "error" \/ lastCommit.oldLookup = "error")
  /\ ((testRuns > 0) ~> (pc = "exited"))

C5_Witness ==
  pc = "exited" /\ exitSite = "report" /\ testRuns = 4 /\ Exhausted

\* C6 as stated: when gatingStep answered shouldGenerate = false,
\* handleTestGeneration is never invoked, directly or through handleTestFix
C6_NoGenerationWhenGatedOff ==
  (pc \notin {"checkToken", "checkEventPath", "readEvent", "checkRepository",
              "buildPRContext", "createReviewComment", "handleReviewAgent",
              "createTestComment", "buildTestContext", "gatingStep"}
   /\ testCommentId # 0 /\ gating # NoGating /\ ~gating.shouldGenerate)
    => (genCalls = 0 /\ fixCalls = 0)

\* C7: a generateObject error in the review, the gating or the generation
\* step does not reject runFlow: the review has no file analyses and no
\* suggestions, the gating answer is shouldGenerate = false, the proposal
\* list is empty and nothing is committed, and the flow is at its next step
C7_ParseErrorsRecovered ==
  [][ /\ (pc = "handleReviewAgent" /\ pc' # "rejected" /\ llmError'.review) =>
           /\ reviewAnalysis'.fileAnalyses = 0
           /\ reviewAnalysis'.overallSuggestions = 0
           /\ pc' = "createTestComment"
      /\ (pc = "gatingStep" /\ pc' # "rejected" /\ llmError'.gating) =>
           /\ ~gating'.shouldGenerate
           /\ pc' = "gatingBranch"
      /\ (pc = "gatingBranch" /\ llmError.gating) =>
           (pc' = "runLocalTests" /\ genCalls' = genCalls)
      /\ (pc = "handleTestGeneration" /\ llmError'.generation) =>
           /\ proposals' = << >>
           /\ branch' = branch /\ local' = local
           /\ pc' = "runLocalTests"
      /\ (llmError'.review \/ llmError'.gating \/ llmError'.generation) =>
           (pc' = "rejected" => pc \in {"buildTestContext", "commitTests", "rejected"})
    ]_vars

C7_Witness ==
  llmError.review /\ llmError.gating /\ llmError.generation /\ pc = "runLocalTests"

\* a step of commitTests that handled one proposal
CommitStep == pc = "commitTests" /\ lastCommit'.n = lastCommit.n + 1

\* C8: when the lookup of the proposal's path answers 404, commitTests
\* creates the file (createOrUpdateFileContents without sha), and goes on to
\* the next proposal or returns: runFlow is not rejected
C8_NotFoundCreates ==
  [][ (CommitStep /\ lastCommit'.lookup = "notfound") =>
        /\ lastCommit'.write = "create"
        /\ branch'[lastCommit'.path] = File(utf8(proposals[k].testContent))
        /\ pc' \in {"commitTests", "handleTestGenerationEnd"}
    ]_vars

C8_Witness ==
  /\ lastCommit.lookup = "notfound" /\ lastCommit.write = "create"
  /\ branch[lastCommit.path].exists
  /\ pc = "handleTestGenerationEnd"

\* C9 as stated: once a path was committed through the create path, every
\* later commit of that path goes through the update path
C9_CreateThenAlwaysUpdate ==
  [][ (CommitStep /\ lastCommit'.path \in createdPaths
       /\ lastCommit'.lookup # "error" /\ lastCommit'.oldLookup # "error") =>
        lastCommit'.write = "update"
    ]_vars

\* C9 amended: once a path was committed through the create path, every
\* later commit of that path goes through the update path, unless a rename
\* proposal naming the path as its old file deleted it in between
C9_CreateThenUpdateUnlessDeleted ==
  [][ (CommitStep /\ lastCommit'.path \in createdLive
       /\ lastCommit'.lookup # "error" /\ lastCommit'.oldLookup # "error") =>
        /\ lastCommit'.lookup = "file"
        /\ lastCommit'.write = "update"
    ]_vars

C9_Witness ==
  /\ lastCommit.path \in createdPaths
  /\ lastCommit.write = "update"
  /\ genCaller = "fix"

\* the suffix finalizeTestProposals is to enforce
CorrectSuffix(react) == IF react THEN S_test_tsx ELSE S_test_ts

\* C10 as stated: every finalized proposal's file name ends in .test.tsx when
\* the PR is React-based and in .test.ts otherwise, and lies under
\* __tests__/unit
C10_FinalNamesWellFormed ==
  pc = "finalized" =>
    \A i \in 1..Len(proposals) :
      /\ EndsWith(proposals[i].filename, CorrectSuffix(isReact(testContext)))
      /\ StartsWith(proposals[i].filename, S_tests_unit_slash)

\* C11 as stated: for a PR whose list of changed files is empty, gatingStep
\* returns shouldGenerate = false, whatever the model answers
C11_EmptyPRGatedOff ==
  (gating # NoGating /\ Len(testContext.changedFiles) = 0) => ~gating.shouldGenerate

\* C11 amended: for a PR whose list of changed files is empty, gatingStep
\* returns the decision of the model: shouldGenerate is true exactly when the
\* model answered true, and false when it answered false or its answer could
\* not be parsed
C11_EmptyPRFollowsModel ==
  [][ (pc = "gatingStep" /\ pc' = "gatingBranch"
       /\ Len(testContext.changedFiles) = 0) =>
        /\ gatingAnswer' \in {"true", "false", "unparsable"}
        /\ gating'.shouldGenerate = (gatingAnswer' = "true")
    ]_vars

C11_Witness ==
  /\ Len(testContext.changedFiles) = 0 /\ pc = "handleTestGeneration"
  /\ gatingAnswer = "true" /\ gating.shouldGenerate /\ genCaller = "flow"

IsTerminal(seg) == seg.t \in {"success", "failure"}

\* a step of commitTests, called in a fix cycle, in which a lookup failed with
\* a status other than 404
FixCycleThrows ==
  /\ CommitStep /\ genCaller = "fix"
  /\ (lastCommit'.oldLookup = "error" \/ lastCommit'.lookup = "error")

\* C12: an error raised inside handleTestFix in fix cycle i rejects runFlow at
\* once; from there the only step is the exit with code 1: there is no
\* further test run, fix cycle, commit or comment update, and the test
\* comment holds neither the success nor the failure message
C12_FixErrorPropagates ==
  /\ [][ FixCycleThrows => pc' = "rejected" ]_vars
  /\ [][ (pc = "rejected" /\ fixCalls > 0) =>
           /\ pc' = "exited" /\ exitCode' = 1 /\ exitSite' = "catch"
           /\ comments' = comments /\ branch' = branch
           /\ testRuns' = testRuns /\ fixCalls' = fixCalls
           /\ iteration' = iteration /\ steps' = steps ]_vars
  /\ []((pc \in {"rejected", "exited"} /\ exitSite # "report" /\ fixCalls > 0) =>
          /\ steps[Len(steps)] = "fix"
          /\ testRuns = fixCalls /\ iteration = fixCalls
          /\ CountSegs(comments[testCommentId], IsTerminal) = 0
          /\ (pc = "exited" => exitCode = 1))

C12_Witness ==
  /\ pc = "exited" /\ exitSite = "catch" /\ exitCode = 1
  /\ fixCalls = 2 /\ testRuns = 2 /\ lastCommit.lookup = "error"

\* C13: a run that ends in the final if / else of runFlow has exactly one
\* terminal message in the test comment, as its last part and written by its
\* last update: the success message exactly when the last test run passed,
\* with exit code 0, and the failure message exactly when the last test run
\* failed after 3 fix attempts, with exit code 1; before that the comment
\* holds no terminal message
C13_OneTerminalMessage ==
  /\ (testCommentId # 0 /\ exitSite # "report") =>
        CountSegs(comments[testCommentId], IsTerminal) = 0
  /\ (pc = "exited" /\ exitSite = "report") =>
        LET body == comments[testCommentId]
            last == body[Len(body)]
            lastFailed == results[Len(results)]
        IN /\ CountSegs(body, IsTerminal) = 1
           /\ IsTerminal(last)
           /\ steps[Len(steps)] = "report"
           /\ (last.t = "success") <=> ~lastFailed
           /\ (last.t = "success") => exitCode = 0
           /\ (last.t = "failure") <=> (lastFailed /\ fixCalls = 3 /\ iteration = 3)
           /\ (last.t = "failure") => exitCode = 1

C13_Witness ==
  /\ pc = "exited" /\ exitSite = "report" /\ results = <<TRUE, FALSE>>
  /\ comments[testCommentId][Len(comments[testCommentId])] = Seg("success")
  /\ exitCode = 0

\* the steps that may directly follow step a in a run
Follows(a) ==
  CASE a = "context" -> {"review"}
    [] a = "review" -> {"gating"}
    [] a = "gating" -> {"generate", "test"}
    [] a = "generate" -> {"test"}
    [] a = "test" -> {"fix", "report"}
    [] a = "fix" -> {"test"}
    [] OTHER -> {}

\* how many of the first n steps are step a
CountSteps(a, n) == Cardinality({i \in 1..n : steps[i] = a})

\* C14: the steps of a run are taken in the order context, review, gating,
\* generation (if any), test run, then fix cycle and test re-run
\* alternating, then the report: every fix cycle directly follows a failing
\* test run, the report directly follows the last test run and ends the run,
\* and no step but fix cycle and test run is taken twice; a model call for
\* tests is never made before the gating step
C14_StepsInOrder ==
  /\ Len(steps) > 0 => steps[1] = "context"
  /\ \A i \in 1..(Len(steps) - 1) : steps[i + 1] \in Follows(steps[i])
  /\ \A a \in {"context", "review", "gating", "generate", "report"} :
       CountSteps(a, Len(steps)) <= 1
  /\ \A i \in 1..Len(steps) :
       steps[i] = "fix" => results[CountSteps("test", i)]
  /\ CountSteps("test", Len(steps)) = testRuns
  /\ CountSteps("fix", Len(steps)) = fixCalls
  /\ genCalls = CountSteps("generate", Len(steps)) + fixCalls
  /\ (pc = "exited" /\ exitSite = "report") => steps[Len(steps)] = "report"
  /\ pc \in {"handleTestGeneration", "commitTests", "handleTestGenerationEnd"} =>
       steps[Len(steps)] \in {"generate", "fix"}

C14_Witness ==
  /\ steps = <<"context", "review", "gating", "generate", "test", "fix", "test", "report">>
  /\ pc = "exited"

\* C15 as stated: a run started without GITHUB_TOKEN or without the selected
\* provider's API key ends before any PR comment is created or updated, any
\* file is committed and any test is run
C15_ConfigErrorBeforeAnyEffect ==
  (~env.GITHUB_TOKEN \/ SelectedKeyMissing(env)) =>
    /\ Len(comments) = 0
    /\ lastCommit = NoCommit
    /\ testRuns = 0

\* a step that deletes path p from the branch
Deletes(p) == branch[p].exists /\ ~branch'[p].exists

\* C16 as stated: when the run ends with the retries exhausted, every file
\* the flow created or updated is on the branch with the content last
\* committed to it, and the flow deletes no file but the old path of a rename
\* proposal
C16_CommittedFilesRemain ==
  /\ []((pc = "exited" /\ exitSite = "report" /\ exitCode = 1) =>
          \A p \in Paths : written[p].exists => branch[p] = written[p])
  /\ [][ \A p \in Paths :
           Deletes(p) => (CommitStep /\ renameApplies(proposals[k])
                          /\ p = proposals[k].actions.oldFilename) ]_vars

\* C16 amended: no commit is rolled back: at every point of the run, and so
\* when it ends with the retries exhausted, every file the flow created or
\* updated is on the branch with the content last committed to it, unless a
\* later rename proposal named it as its old path and deleted it; the only
\* deletions are those of the old path of a rename proposal, made inside
\* commitTests, and no step outside commitTests changes the branch
C16_NoRollback ==
  /\ [](\A p \in Paths :
          /\ (written[p].exists /\ p \notin renamedAway) => branch[p] = written[p]
          /\ p \in renamedAway => (written[p].exists /\ ~branch[p].exists))
  /\ [][ \A p \in Paths :
           Deletes(p) =>
             /\ CommitStep
             /\ renameApplies(proposals[k])
             /\ p = proposals[k].actions.oldFilename
             /\ lastCommit'.oldLookup = "file" /\ lastCommit'.deleted ]_vars
  /\ [][ pc # "commitTests" => branch' = branch ]_vars

C16_Witness ==
  /\ pc = "exited" /\ exitSite = "report" /\ exitCode = 1
  /\ renamedAway # {}
  /\ \E p \in Paths : written[p].exists /\ p \notin renamedAway /\ branch[p] = written[p]

\* the kinds of text handleReviewAgent and runFlow put in the review comment
ReviewSegs == {"reviewInit", "summary", "fileAnalyses", "suggestions"}

\* the kinds of text gating, generation, fix cycles and report put in the
\* test comment
TestSegs ==
  {"testInit", "gatingCheck", "skipReason", "skipRunning", "generating",
   "noProposals", "proposed", "fixNotice", "fixPrompt", "success", "failure"}

C18_ContextBuiltOnce ==
  /\ [][ pc # "buildPRContext" => ctx' = ctx ]_vars
  /\ [][ pc # "buildTestContext" => testContext' = testContext ]_vars
  /\ [](CountSteps("gating", Len(steps)) > 0 =>
          testContext.changedFiles = ctx.changedFiles)
  /\ [](genCalls > 0 => genContext = testContext)

C18_Witness ==
  /\ pc = "handleTestGeneration" /\ genCaller = "fix" /\ fixCalls = 2
  /\ genContext = testContext
  /\ testContext.existingTestFiles # getAllTestFiles(branch)

\* C19 as stated: after commitTests has processed a proposal, the target path
\* exists on the branch and in the working tree with the proposed content,
\* and for a rename proposal the old path exists in neither
C19_LocalAndBranchAgree ==
  [][ (CommitStep /\ pc' # "rejected") =>
        LET p == proposals[k]
            old == p.actions.oldFilename
        IN /\ branch'[p.filename] = File(utf8(p.testContent))
           /\ local'[p.filename] = File(utf8(p.testContent))
           /\ (renameApplies(p) /\ old \in Paths) =>
                (~branch'[old].exists /\ ~local'[old].exists)
    ]_vars

\* a step of commitTests that deletes no file of the branch
DeletesNothing == \A q \in Paths : ~Deletes(q)

\* the new path of proposal p was committed with the proposed content
Committed(p) ==
  /\ lastCommit'.write \in {"create", "update"}
  /\ branch'[p.filename] = File(utf8(p.testContent))

\* C20 as stated: for a rename proposal with a non-empty oldFilename other
\* than its filename, commitTests deletes the old path before it writes the
\* new path, unless the old path does not exist (404): then the deletion is
\* skipped and the new path is still committed; for create and update
\* proposals nothing is deleted
C20_RenameDeletesOldUnless404 ==
  [][ CommitStep =>
        LET p == proposals[k]
            old == p.actions.oldFilename
        IN /\ (renameApplies(p) /\ lastCommit'.oldLookup \notin {"notfound", "error"}) =>
                (lastCommit'.deleted /\ getContent(branch', old) # "file")
           /\ (renameApplies(p) /\ lastCommit'.oldLookup = "notfound") =>
                /\ DeletesNothing
                /\ lastCommit'.lookup \in {"file", "notfound"} => Committed(p)
           /\ p.actions.action \in {"create", "update"} => DeletesNothing
    ]_vars

\* C20 amended: for a rename proposal with a non-empty oldFilename other than
\* its filename, commitTests deletes the old path when the lookup returns a
\* file, and does so before it writes the new path: the file is gone also
\* when the lookup of the new path then fails; when the old path does not
\* exist (404) or is a directory the deletion is skipped and the new path is
\* still committed; for create and update proposals, and for a rename with an
\* empty oldFilename or one equal to the filename, nothing is deleted
C20_RenameDeletesOldFile ==
  [][ CommitStep =>
        LET p == proposals[k]
            old == p.actions.oldFilename
        IN /\ (renameApplies(p) /\ lastCommit'.oldLookup = "file") =>
                /\ lastCommit'.deleted /\ Deletes(old)
                /\ \A q \in Paths \ {old, p.filename} : branch'[q] = branch[q]
                /\ lastCommit'.lookup = "error" =>
                     (pc' = "rejected" /\ branch'[p.filename] = branch[p.filename])
                /\ lastCommit'.lookup = "notfound" => Committed(p)
           /\ (renameApplies(p) /\ lastCommit'.oldLookup \in {"notfound", "dir"}) =>
                /\ DeletesNothing /\ ~lastCommit'.deleted
                /\ lastCommit'.lookup \in {"file", "notfound"} => Committed(p)
           /\ ~renameApplies(p) =>
                (DeletesNothing /\ ~lastCommit'.deleted /\ lastCommit'.oldLookup = "")
           /\ p.actions.action \in {"create", "update"} => ~renameApplies(p)
    ]_vars

C20_Witness ==
  /\ pc = "handleTestGenerationEnd"
  /\ lastCommit.oldLookup = "file" /\ lastCommit.deleted
  /\ lastCommit.lookup = "notfound" /\ lastCommit.write = "create"
  /\ ~branch[N_unit_A_test_tsx].exists /\ branch[N_unit_B_test_tsx].exists

\* a is a prefix of b
IsPrefix(a, b) == Len(a) <= Len(b) /\ SubSeq(b, 1, Len(a)) = a

IsProposed(seg) == seg.t = "proposed"

\* C21 as stated: every body written to the test comment has the body
\* written before it as a prefix, so that the list of proposed test files,
\* once posted, is in the comment when the run ends
C21_TestCommentAppendOnly ==
  /\ [][ testCommentId # 0 =>
           IsPrefix(comments[testCommentId], comments'[testCommentId]) ]_vars
  /\ [][ (testCommentId # 0 /\ CountSegs(comments[testCommentId], IsProposed) > 0) =>
           CountSegs(comments'[testCommentId], IsProposed) > 0 ]_vars

\* C22: the attempt counter stays in 0..3 and counts the fix cycles started
\* (one "Test Fix #i" notice each; handleTestFix has been called for all of
\* them but the one being started); at each loop test iteration + 1 test
\* runs are complete; the i-th call of handleTestFix is given attempt
\* number i and the output of the latest test run, which failed; and the
\* failure exit is taken only with iteration = 3
C22_AttemptCounter ==
  /\ [](/\ iteration \in 0..maxIterations
        /\ iteration = CountSegs(testBody, IsFixNotice)
        /\ iteration = IF pc = "handleTestFix" THEN fixCalls + 1 ELSE fixCalls
        /\ pc = "loop" => testRuns = iteration + 1
        /\ (pc = "exited" /\ exitSite = "report" /\ exitCode = 1) =>
             iteration = maxIterations)
  /\ [][ pc = "handleTestFix" =>
           /\ fixCalls' = iteration
           /\ genBody'[Len(genBody')] = SegFix("fixPrompt", fixCalls', testRuns)
           /\ testResult.output = testRuns
           /\ testResult.jestFailed /\ results[testRuns] ]_vars

C22_Witness ==
  /\ pc = "handleTestGeneration" /\ genCaller = "fix"
  /\ iteration = 3 /\ fixCalls = 3 /\ testRuns = 3
  /\ genBody[Len(genBody)] = SegFix("fixPrompt", 3, 3)

\* the file name ends in one of the lock-file names
MatchesLockPattern(name) ==
  \/ EndsWith(name, S_package_lock) \/ EndsWith(name, S_yarn_lock)
  \/ EndsWith(name, S_pnpm_lock)

\* content present: a non-empty string of at most 32000 characters
ContentPresent(c) == c.content.defined /\ c.content.len > 0 /\ c.content.len <= 32000

\* a listed file buildPRContext is to leave out of the prompt: removed, a lock
\* file, not fetched, empty or longer than 32000 characters
LeftOut(f) ==
  \/ f.status = "removed" \/ MatchesLockPattern(f.filename)
  \/ ~f.remote.defined \/ f.remote.len = 0 \/ f.remote.len > 32000

\* C23: the context buildPRContext returns has one entry per listed file, in
\* order; each entry either has its content present and excluded = false, or
\* has no content and excluded = true, never anything else; an entry is of
\* the second kind when the file is removed, matches a lock-file pattern,
\* could not be fetched, is empty or is longer than 32000 characters, and
\* of the first kind, with the fetched content, otherwise
C23_ContentXorExcluded ==
  pc = "createReviewComment" =>
    /\ Len(ctx.changedFiles) = Len(listing)
    /\ \A i \in 1..Len(listing) :
         LET f == listing[i]
             c == ctx.changedFiles[i]
         IN /\ c.filename = f.filename /\ c.status = f.status
            /\ (ContentPresent(c) /\ ~c.excluded) # (~c.content.defined /\ c.excluded)
            /\ LeftOut(f) => (~c.content.defined /\ c.excluded)
            /\ ~LeftOut(f) => (c.content = f.remote /\ ~c.excluded)

C23_Witness ==
  /\ pc = "createReviewComment" /\ Len(listing) = 1
  /\ listing[1].status = "modified" /\ ~MatchesLockPattern(listing[1].filename)
  /\ listing[1].remote.len = MaxContentLength + 1
  /\ ctx.changedFiles[1].excluded /\ ~ctx.changedFiles[1].content.defined

====
